---- MODULE Spec2Model ----
(***************************************************************************)
(* tests/tester.py of bloaty: the test harness that reads a .test file,   *)
(* compiles its YAML documents with yaml2obj, runs the bloaty command     *)
(* found in the file and compares its output with the rest of the file.   *)
(*                                                                         *)
(* Text is modelled as a sequence of one-character strings.  The external  *)
(* programs (yaml2obj, the bloaty command, the file system's contents) are *)
(* the environment: their results are drawn from small sets.               *)
(***************************************************************************)
EXTENDS Integers, Sequences, FiniteSets, TLC

VARIABLES
  args,              \* sys.argv[1:]
  fs,                \* path -> bytes of the file, or Unread: left to the environment
  pc,                \* position of the main flow / of TestFile
  argi,              \* index of the next element of args (the for loop of line 63)
  filename,          \* TestFile's parameter
  tmpdir,            \* the directory mkdtemp returned (an index into disk)
  contents,          \* f.read()
  file_count,
  i,                 \* the loop variable of line 24
  bloaty_invocation,
  expected_output,
  failure,
  successes,
  failures,
  disk,              \* every directory mkdtemp created so far, in creation order,
                     \* with the names of the files in it
  actual,            \* the bytes of the file "actual" of tmpdir (the one file whose
                     \* contents the harness has read back, through diff)
  cases,             \* history: one record per call of TestFile
  printed,           \* which closing message the main flow printed
  exit_status,       \* the status the process exited with, NoExit while it runs
  oracle,            \* path -> what yaml2obj and the command of that test file do,
                     \* when the environment has fixed it in advance
  prev,              \* how the cases of the previous harness run ended (empty in a
                     \* first run)
  flip,              \* the byte changed in a test file between two runs, if any
  files,             \* TestArg's list (line 51): the files still to be tested
  \* update_headers.py and generate_patches.py
  entry,             \* the function that was called: "main" or "apply_patches"
  dry_run,           \* args.dry_run, or the parameter of apply_patches
  tree,              \* the files below script_dir: path -> contents, or Absent
  tree0,             \* history: tree when the script was started
  hpc,               \* position in the script
  idx,               \* position of the loop over the headers or the patch files
  patch_files,       \* apply_patches: sorted(patch_dir.glob("*.patch"))
  renamed_files,     \* apply_patches: the final names the ".new" files were given
  patches_generated, \* generate_patches.main: the list it reports
  result,            \* what main returned, NoExit until it returns
  effects,           \* history: the downloads and the runs of patch, in order
  clock,             \* the time of day, which diff writes into its two header lines
  run                \* generate_patches: 1 in the first run, 2 in the one after it

tester_vars == <<args, fs, pc, argi, filename, tmpdir, contents, file_count, i,
                 bloaty_invocation, expected_output, failure, successes, failures,
                 disk, actual, cases, printed, exit_status, oracle, prev, flip, files>>

tool_vars == <<entry, dry_run, tree, tree0, hpc, idx, patch_files, renamed_files,
               patches_generated, result, effects, clock, run>>

vars == <<tester_vars, tool_vars>>

-----------------------------------------------------------------------------
(* Bounds of the model *)

MaxArgs == 2          \* at most this many command-line arguments
MaxLines == 3         \* at most this many lines in a generated test file

-----------------------------------------------------------------------------
(* Characters and the text functions of the Python library the code uses *)

LF == "\n"
CR == "\r"
FF == "\f"

None == "None"
Unread == <<"?">>
NoExit == -1

\* the set of sequences over S of length at most n
RECURSIVE SeqsUpTo(_, _)
SeqsUpTo(S, n) ==
  IF n = 0 THEN {<<>>}
  ELSE LET shorter == SeqsUpTo(S, n - 1)
       IN  shorter \cup {Append(s, x) : s \in {t \in shorter : Len(t) = n - 1}, x \in S}

\* open(abspath).read() in text mode: universal newlines turn "\r\n" and "\r" into "\n"
RECURSIVE f_read(_)
f_read(bytes) ==
  IF bytes = <<>> THEN <<>>
  ELSE IF bytes[1] = CR
       THEN <<LF>> \o f_read(IF Len(bytes) > 1 /\ bytes[2] = LF
                             THEN SubSeq(bytes, 3, Len(bytes))
                             ELSE Tail(bytes))
       ELSE <<bytes[1]>> \o f_read(Tail(bytes))

\* a variant of findall_count: the pattern r'^---$', which wants the whole line
findall_count_exact(text) ==
  Cardinality({p \in 1..(Len(text) - 2) :
                 /\ text[p] = "-" /\ text[p + 1] = "-" /\ text[p + 2] = "-"
                 /\ (p = 1 \/ text[p - 1] = LF)
                 /\ (p + 2 = Len(text) \/ text[p + 3] = LF)})

\* len(re.findall(r'^---', contents, flags=re.MULTILINE)): "^" matches at the start
\* of the text and right after each "\n"
findall_count(text) ==
  Cardinality({p \in 1..(Len(text) - 2) :
                 /\ text[p] = "-" /\ text[p + 1] = "-" /\ text[p + 2] = "-"
                 /\ (p = 1 \/ text[p - 1] = LF)})

\* the line boundaries of str.splitlines (of which the model has "\n", "\r", "\f")
IsLineBreak(ch) == ch \in {LF, CR, FF}

FirstBreak(text) ==
  IF \E p \in 1..Len(text) : IsLineBreak(text[p])
  THEN CHOOSE p \in 1..Len(text) :
         /\ IsLineBreak(text[p])
         /\ \A q \in 1..(p - 1) : ~IsLineBreak(text[q])
  ELSE 0

\* str.splitlines(): no line for the empty text, none after a final line break
RECURSIVE splitlines(_)
splitlines(text) ==
  IF text = <<>> THEN <<>>
  ELSE LET b == FirstBreak(text)
       IN  IF b = 0 THEN <<text>>
           ELSE LET e == IF text[b] = CR /\ b < Len(text) /\ text[b + 1] = LF
                         THEN b + 1 ELSE b
                IN  <<SubSeq(text, 1, b - 1)>> \o splitlines(SubSeq(text, e + 1, Len(text)))

\* sep.join(list)
RECURSIVE join(_, _)
join(sep, list) ==
  IF list = <<>> THEN <<>>
  ELSE IF Len(list) = 1 THEN list[1]
       ELSE list[1] \o sep \o join(sep, Tail(list))

\* str(n) for n >= 0
Digits == <<"0", "1", "2", "3", "4", "5", "6", "7", "8", "9">>

RECURSIVE str(_)
str(n) ==
  IF n < 10 THEN <<Digits[n + 1]>>
  ELSE str(n \div 10) \o <<Digits[(n % 10) + 1]>>

\* os.path.join(a, b) on POSIX: an absolute b replaces a
path_join(a, b) ==
  IF b # <<>> /\ b[1] = "/" THEN b
  ELSE IF a = <<>> \/ a[Len(a)] = "/" THEN a \o b
       ELSE a \o <<"/">> \o b

\* a variant of PoppedLines: the loop condition without "len(lines[0]) == 0 or", so
\* that lines[0][0] raises IndexError at a blank line before the command
PoppedLines_blank_raises(list) ==
  IF \E k \in 1..Len(list) :
       /\ Len(list[k]) # 0 /\ list[k][1] = "$"
       /\ \A j \in 1..(k - 1) : Len(list[j]) # 0 /\ list[j][1] # "$"
  THEN (CHOOSE k \in 1..Len(list) :
          /\ Len(list[k]) # 0 /\ list[k][1] = "$"
          /\ \A j \in 1..(k - 1) : Len(list[j]) # 0 /\ list[j][1] # "$") - 1
  ELSE -1

\* the while loop of lines 27-28: how many lines are popped before the loop ends at
\* a line whose first character is "$"; -1 when the list runs out (lines[0] then
\* raises IndexError)
PoppedLines(list) ==
  IF \E k \in 1..Len(list) : Len(list[k]) # 0 /\ list[k][1] = "$"
  THEN (CHOOSE k \in 1..Len(list) :
          /\ Len(list[k]) # 0 /\ list[k][1] = "$"
          /\ \A j \in 1..(k - 1) : Len(list[j]) = 0 \/ list[j][1] # "$") - 1
  ELSE -1

\* a variant of SliceFrom2: lines[0][1:]
SliceFrom1(line) == SubSeq(line, 2, Len(line))

\* lines[0][2:]
SliceFrom2(line) == SubSeq(line, 3, Len(line))

\* os.getcwd()
cwd == <<"/", "w">>

Redirect == <<" ", ">", " ", "a", "c", "t", "u", "a", "l">>

\* line 29
InvocationOf(line) == path_join(cwd, SliceFrom2(line)) \o Redirect

\* line 31
ExpectedOf(rest) == join(<<LF>>, rest) \o <<LF>>

\* a variant of DiffStatus: only the sizes of the two files are compared
DiffStatus_sizes(a, b) == IF Len(a) = Len(b) THEN 0 ELSE 1

\* lines 26-31 for a text that has a command line
ExpectedOfText(text) ==
  LET lines == splitlines(text)
  IN  ExpectedOf(SubSeq(lines, PoppedLines(lines) + 2, Len(lines)))

\* diff -u expected actual: status 0 when the files are identical
DiffStatus(a, b) == IF a = b THEN 0 ELSE 1

-----------------------------------------------------------------------------
(* The environment *)

\* the test files named on the command line: "t1", "t2", ...
PathName(k) == <<"t">> \o str(k)

Paths == {PathName(k) : k \in 1..MaxArgs}

\* the command lines: the first n test files, for every n up to MaxArgs
ArgLists == {[k \in 1..n |-> PathName(k)] : n \in 0..MaxArgs}

\* lines a generated test file is made of
LineSet == { <<>>,
             <<"-", "-", "-">>,
             <<"-", "-", "-", " ", "!">>,
             <<"$", " ", "c">>,
             <<"$", "c">>,
             <<"h">> }

\* the files the environment may hold: up to MaxLines lines, each ended by "\n"
TerminateAll(list) == join(<<>>, [k \in 1..Len(list) |-> list[k] \o <<LF>>])

FileSet == {TerminateAll(list) : list \in SeqsUpTo(LineSet, MaxLines)}

\* what the bloaty command may write to its standard output
SutOutputs == { <<"h", LF>>, <<"h">> }

\* an oracle that leaves everything to the moment of the call
FreeOracle == [fixed |-> FALSE, cc |-> <<>>, status |-> 0, out |-> <<>>]

NoFlip == [case |-> 0, path |-> <<>>, pos |-> 0, old |-> "", new |-> ""]

ExitStatuses == {0, 1}

ACTUAL == <<"actual">>
EXPECTED == <<"expected">>

\* a variant of CreateFile: the file is created somewhere else
CreateFile_elsewhere(d, name) == disk

\* creating (or truncating) the file name in directory d
CreateFile(d, name) == [disk EXCEPT ![d].files = @ \cup {name}]

\* tempfile.mkdtemp: a new, empty directory; its name is its index in disk
mkdtemp == Append(disk, [exists |-> TRUE, files |-> {}])

\* a variant of rmtree: the directory is left in place
rmtree_keep(d) == disk

\* shutil.rmtree
rmtree(d) == [disk EXCEPT ![d] = [exists |-> FALSE, files |-> {}]]

-----------------------------------------------------------------------------
(* Directories.  The file system is fs: a path that is a directory is mapped  *)
(* to Directory, and everything below it is the paths of fs that extend it.   *)

Directory == <<"<dir>">>

\* os.path.isdir
isdir(path) == path \in DOMAIN fs /\ fs[path] = Directory

\* the characters of the paths, in the order of their code points
Chars == <<"-", ".", "/", "0", "1", "2", "3", "4", "5", "6", "7", "8", "9", "_",
           "a", "b", "c", "d", "e", "f", "g", "h", "i", "j", "k", "l", "m",
           "n", "o", "p", "q", "r", "s", "t", "u", "v", "w", "x", "y", "z">>

ord(ch) == CHOOSE k \in 1..Len(Chars) : Chars[k] = ch

\* a < b for two str values: by code points, a proper prefix first
RECURSIVE str_lt(_, _)
str_lt(a, b) ==
  IF b = <<>> THEN FALSE
  ELSE IF a = <<>> THEN TRUE
  ELSE IF Head(a) # Head(b) THEN ord(Head(a)) < ord(Head(b))
  ELSE str_lt(Tail(a), Tail(b))

\* a variant of sorted: sorted(..., reverse=True)
RECURSIVE sorted_reverse(_)
sorted_reverse(S) ==
  IF S = {} THEN <<>>
  ELSE LET last == CHOOSE x \in S : \A y \in S \ {x} : str_lt(y, x)
       IN  <<last>> \o sorted_reverse(S \ {last})

\* sorted(S) for a collection of distinct str values
RECURSIVE sorted(_)
sorted(S) ==
  IF S = {} THEN <<>>
  ELSE LET first == CHOOSE x \in S : \A y \in S \ {x} : str_lt(x, y)
       IN  <<first>> \o sorted(S \ {first})

\* os.listdir: the paths of the entries of directory dir
listdir(dir) ==
  {p \in DOMAIN fs :
     /\ Len(p) > Len(dir) + 1
     /\ SubSeq(p, 1, Len(dir) + 1) = dir \o <<"/">>
     /\ \A k \in (Len(dir) + 2)..Len(p) : p[k] # "/"}

\* os.path.basename
RECURSIVE basename(_)
basename(path) ==
  IF \E k \in 1..Len(path) : path[k] = "/"
  THEN basename(Tail(path))
  ELSE path

\* glob._ishidden
ishidden(name) == Head(name) = "."

TestSuffix == <<".", "t", "e", "s", "t">>

\* fnmatch(name, "*.test")
fnmatch(name) ==
  /\ Len(name) >= Len(TestSuffix)
  /\ SubSeq(name, Len(name) - Len(TestSuffix) + 1, Len(name)) = TestSuffix

\* glob._glob1(dir, "*.test"): the entries of dir that match, the hidden ones not
glob1(dir) ==
  {p \in listdir(dir) : ~ishidden(basename(p)) /\ fnmatch(basename(p))}

\* glob._glob2(dir, "**", dironly): dir and, recursively, its sub-directories that
\* are not hidden
RECURSIVE glob2(_)
glob2(dir) ==
  {dir} \cup UNION {glob2(sub) : sub \in {q \in listdir(dir) :
                                            isdir(q) /\ ~ishidden(basename(q))}}

\* a variant of glob: recursive=True is missing, "**" then stands for one directory
glob_one_level(arg) ==
  UNION {glob1(sub) : sub \in {q \in listdir(arg) :
                                 isdir(q) /\ ~ishidden(basename(q))}}

\* glob.glob(os.path.join(arg, "**/*.test"), recursive=True)
glob(arg) == UNION {glob1(sub) : sub \in glob2(arg)}

-----------------------------------------------------------------------------
(* The results the environment may give.  Where the oracle of a test file is   *)
(* not fixed, they are free.  Where it is, yaml2obj and the command are       *)
(* deterministic programs: the same request gets the same answer in every run *)
(* (the same document number; the same command with the same fixtures).       *)

CaseNo == Len(cases)

Yaml2objStatuses ==
  IF oracle[filename].fixed /\ i <= Len(oracle[filename].cc)
  THEN {oracle[filename].cc[i]}
  ELSE ExitStatuses

\* the command may write anything; the model has SutOutputs and the expected output
BloatyResults ==
  IF oracle[filename].fixed /\ file_count = Len(oracle[filename].cc)
  THEN {<<oracle[filename].status, oracle[filename].out>>}
  ELSE ExitStatuses \X (SutOutputs \cup {expected_output})

ReadChoices(path) == IF fs[path] = Unread THEN FileSet ELSE {fs[path]}

-----------------------------------------------------------------------------
(* The program *)

\* the header scripts are not run: their state is as at the start of a run in an
\* empty directory
ToolsIdle ==
  /\ entry = "main"
  /\ dry_run = FALSE
  /\ tree = <<>>
  /\ tree0 = <<>>
  /\ hpc = "idle"
  /\ idx = 0
  /\ patch_files = <<>>
  /\ renamed_files = <<>>
  /\ patches_generated = <<>>
  /\ result = NoExit
  /\ effects = <<>>
  /\ clock = 0
  /\ run = 1

\* a variant of ArgsDone: the loop also stops at the first recorded failure
ArgsDone_or_failed == argi > Len(args) \/ failures # <<>>

\* line 63: the for loop over the arguments has run out
ArgsDone == argi > Len(args)

SetOutcome(o) == [cases EXCEPT ![CaseNo].outcome = o]

\* an exception nobody catches: the interpreter prints a traceback and exits with 1
Uncaught(o) ==
  /\ pc' = "exited"
  /\ exit_status' = 1
  /\ cases' = SetOutcome(o)

Init ==
  /\ args \in ArgLists
  /\ fs = [p \in Paths |-> Unread]
  /\ pc = "main"
  /\ argi = 1
  /\ filename = None
  /\ tmpdir = 0
  /\ contents = <<>>
  /\ file_count = 0
  /\ i = 0
  /\ bloaty_invocation = <<>>
  /\ expected_output = <<>>
  /\ failure = None
  /\ successes = 0
  /\ failures = <<>>
  /\ disk = <<>>
  /\ actual = <<>>
  /\ cases = <<>>
  /\ printed = None
  /\ exit_status = NoExit
  /\ oracle = [p \in Paths |-> FreeOracle]
  /\ prev = <<>>
  /\ flip = NoFlip
  /\ files = <<>>
  /\ ToolsIdle

\* a variant of NoArgs: "if not sys.argv", and sys.argv always holds the script
NoArgs_argv == <<"tester.py">> \o args = <<>>

\* line 59: not args
NoArgs == args = <<>>

\* lines 57-61
Usage ==
  /\ pc = "main"
  /\ NoArgs
  /\ printed' = "Usage"
  /\ exit_status' = 1
  /\ pc' = "exited"
  /\ UNCHANGED <<actual, args, fs, argi, filename, tmpdir, contents, file_count, i,
                 bloaty_invocation, expected_output, failure, successes, failures,
                 disk, cases, prev, oracle, flip, files, tool_vars>>

\* lines 50-55: the files TestArg calls TestFile on, in this order
FilesOf(arg) == IF isdir(arg) THEN sorted(glob(arg)) ELSE <<arg>>

\* lines 63-64 and TestArg, up to its first call of TestFile
TestArg ==
  /\ pc = "main"
  /\ ~NoArgs
  /\ ~ArgsDone
  /\ argi' = argi + 1
  /\ LET todo == FilesOf(args[argi])
     IN  IF todo = <<>>
         THEN UNCHANGED <<pc, filename, files>>
         ELSE /\ filename' = Head(todo)
              /\ files' = Tail(todo)
              /\ pc' = "TestFile"
  /\ UNCHANGED <<actual, args, fs, tmpdir, contents, file_count, i, bloaty_invocation,
                 expected_output, failure, successes, failures, disk, cases,
                 printed, exit_status, prev, oracle, flip, tool_vars>>

\* a variant of InRange: range(1, file_count + 2), one document too many
InRange_one_more(j) == 1 <= j /\ j < file_count + 2

\* a variant of InRange: range(1, file_count), the last document left out
InRange_one_less(j) == 1 <= j /\ j < file_count

\* line 24: j is in range(1, file_count + 1)
InRange(j) == 1 <= j /\ j < file_count + 1

\* lines 19-23: open, mkdtemp, read, count the documents; open raises
\* IsADirectoryError when the path is a directory, and nobody catches it
OpenFile ==
  /\ pc = "TestFile"
  /\ IF isdir(filename)
     THEN /\ pc' = "exited"
          /\ exit_status' = 1
          /\ UNCHANGED <<contents, file_count, tmpdir, disk, cases, i>>
     ELSE /\ \E bytes \in ReadChoices(filename) :
               /\ contents' = f_read(bytes)
               /\ file_count' = findall_count(f_read(bytes))
          /\ tmpdir' = Len(disk) + 1
          /\ disk' = mkdtemp
          /\ cases' = Append(cases, [filename |-> filename, tmpdir |-> Len(disk) + 1,
                                     bloaty_status |-> NoExit, outcome |-> "Running"])
          /\ i' = 1
          /\ pc' = "yaml2obj"
          /\ UNCHANGED exit_status
  /\ UNCHANGED <<actual, args, fs, argi, filename, bloaty_invocation, expected_output,
                 failure, successes, failures, printed, prev, oracle, flip, files, tool_vars>>

\* lines 24-25, one iteration: the shell creates the file str(i), yaml2obj fills it;
\* check_call raises CalledProcessError on a nonzero status
Yaml2obj ==
  /\ pc = "yaml2obj"
  /\ InRange(i)
  /\ \E status \in Yaml2objStatuses :
       /\ disk' = CreateFile(tmpdir, str(i))
       /\ IF status # 0
          THEN /\ Uncaught("ProvisioningError")
               /\ UNCHANGED i
          ELSE /\ i' = i + 1
               /\ UNCHANGED <<pc, exit_status, cases>>
  /\ UNCHANGED <<actual, args, fs, argi, filename, tmpdir, contents, file_count,
                 bloaty_invocation, expected_output, failure, successes, failures,
                 printed, prev, oracle, flip, files, tool_vars>>

\* lines 26-32: find the command line, build the command and the expected output;
\* lines[0] raises IndexError when the list runs out
ParseLines ==
  /\ pc = "yaml2obj"
  /\ ~InRange(i)
  /\ LET lines == splitlines(contents)
         popped == PoppedLines(lines)
     IN  IF popped < 0
         THEN /\ Uncaught("FormatError")
              /\ UNCHANGED <<contents, bloaty_invocation, expected_output, failure>>
         ELSE /\ bloaty_invocation' = InvocationOf(lines[popped + 1])
              /\ expected_output' = ExpectedOf(SubSeq(lines, popped + 2, Len(lines)))
              /\ failure' = None
              /\ contents' = <<>>     \* contents and lines are not read after line 31
              /\ pc' = "bloaty"
              /\ UNCHANGED <<exit_status, cases>>
  /\ UNCHANGED <<actual, args, fs, argi, filename, tmpdir, file_count, i,
                 successes, failures, disk, printed, prev, oracle, flip, files, tool_vars>>

\* a variant of IsCrash: only a negative status (death by a signal) counts
IsCrash_signal_only(status) == status < 0

\* line 33: the test of the status subprocess.call returned
IsCrash(status) == status # 0

\* lines 33-34: the shell creates "actual", the command writes its output to it
RunBloaty ==
  /\ pc = "bloaty"
  /\ \E r \in BloatyResults :
       /\ disk' = CreateFile(tmpdir, ACTUAL)
       /\ actual' = r[2]
       /\ cases' = [cases EXCEPT ![CaseNo].bloaty_status = r[1]]
       /\ IF IsCrash(r[1])
          THEN /\ failure' = "CRASHED"
               /\ pc' = "report"
          ELSE /\ pc' = "diff"
               /\ UNCHANGED failure
  /\ UNCHANGED <<args, fs, argi, filename, tmpdir, contents, file_count, i,
                 bloaty_invocation, expected_output, successes, failures,
                 printed, exit_status, prev, oracle, flip, files, tool_vars>>

\* lines 35-39
RunDiff ==
  /\ pc = "diff"
  /\ disk' = CreateFile(tmpdir, EXPECTED)
  /\ failure' = IF DiffStatus(expected_output, actual) # 0
                THEN "FAILED" ELSE failure
  /\ pc' = "report"
  /\ UNCHANGED <<actual, args, fs, argi, filename, tmpdir, contents, file_count, i,
                 bloaty_invocation, expected_output, successes, failures, cases,
                 printed, exit_status, prev, oracle, flip, files, tool_vars>>

OutcomeOf(f) ==
  IF f = "CRASHED" THEN "Crashed" ELSE IF f = "FAILED" THEN "Mismatch" ELSE "Pass"

\* a variant of AppendFailure: the new entry goes to the front
AppendFailure_front == <<<<filename, tmpdir>>>> \o failures

\* line 44
AppendFailure == Append(failures, <<filename, tmpdir>>)

\* lines 41-47 and the return of TestFile: to the loop of line 52, which calls
\* TestFile on the next file of the directory, or, that loop over, to the main flow
Report ==
  /\ pc = "report"
  /\ IF failure # None
     THEN /\ failures' = AppendFailure
          /\ UNCHANGED <<successes, disk>>
     ELSE /\ successes' = successes + 1
          /\ disk' = rmtree(tmpdir)
          /\ UNCHANGED failures
  /\ cases' = SetOutcome(OutcomeOf(failure))
  /\ IF files = <<>>
     THEN /\ filename' = None
          /\ pc' = "main"
          /\ UNCHANGED files
     ELSE /\ filename' = Head(files)
          /\ files' = Tail(files)
          /\ pc' = "TestFile"
  /\ tmpdir' = 0
  /\ contents' = <<>>
  /\ file_count' = 0
  /\ i' = 0
  /\ bloaty_invocation' = <<>>
  /\ expected_output' = <<>>
  /\ actual' = <<>>
  /\ failure' = None
  /\ UNCHANGED <<args, fs, argi, printed, exit_status, prev, oracle, flip, tool_vars>>

\* a variant of SummaryStatus: sys.exit(1) of line 72 is missing
SummaryStatus_zero == IF failures = <<>> THEN 0 ELSE 0

\* lines 66-72: the status the main flow ends with (falling off its end is 0)
SummaryStatus == IF failures = <<>> THEN 0 ELSE 1

\* lines 66-72
Summary ==
  /\ pc = "main"
  /\ ~NoArgs
  /\ ArgsDone
  /\ printed' = IF failures = <<>> THEN "SUCCESS" ELSE "FAILURE"
  /\ exit_status' = SummaryStatus
  /\ pc' = "exited"
  /\ UNCHANGED <<actual, args, fs, argi, filename, tmpdir, contents, file_count, i,
                 bloaty_invocation, expected_output, failure, successes, failures,
                 disk, cases, prev, oracle, flip, files, tool_vars>>

Next ==
  \/ Usage
  \/ TestArg
  \/ OpenFile
  \/ Yaml2obj
  \/ ParseLines
  \/ RunBloaty
  \/ RunDiff
  \/ Report
  \/ Summary

Spec == Init /\ [][Next]_vars

-----------------------------------------------------------------------------
(* Two runs of the harness on the same test files with a deterministic fixture *)
(* compiler and command, one byte of the expected-output section of a passing  *)
(* test file being changed between the runs.                                   *)

CmdLine == <<"$", " ", "c", LF>>

\* the test files of the two-run experiment
FlipFiles == { CmdLine \o <<"h", LF>>,
               <<"-", "-", "-", LF>> \o CmdLine \o <<"h", LF>>,
               CmdLine \o <<"-", "-", "h", LF>>,
               <<"h", LF>> }

\* the values the changed byte may get
FlipBytes == {"h", "-", LF, CR, FF}

\* what yaml2obj and the command may be fixed to do for a test file
OraclesFor(bytes) ==
  LET text == f_read(bytes)
  IN  IF PoppedLines(splitlines(text)) < 0
      THEN {[fixed |-> TRUE, cc |-> c, status |-> 0, out |-> <<>>] :
              c \in [1..findall_count(text) -> ExitStatuses]}
      ELSE {[fixed |-> TRUE, cc |-> c, status |-> st, out |-> o] :
              c \in [1..findall_count(text) -> ExitStatuses],
              st \in ExitStatuses,
              o \in SutOutputs \cup {ExpectedOfText(text)}}

Worlds == UNION {{<<bytes, o>> : o \in OraclesFor(bytes)} : bytes \in FlipFiles}

PathNo(p) == CHOOSE k \in 1..MaxArgs : PathName(k) = p

InitFlip ==
  /\ \E n \in 0..MaxArgs :
       \E w \in [1..n -> Worlds] :
         /\ args = [k \in 1..n |-> PathName(k)]
         /\ fs = [p \in Paths |-> IF PathNo(p) <= n THEN w[PathNo(p)][1] ELSE Unread]
         /\ oracle = [p \in Paths |->
                        IF PathNo(p) <= n THEN w[PathNo(p)][2] ELSE FreeOracle]
  /\ pc = "main"
  /\ argi = 1
  /\ filename = None
  /\ tmpdir = 0
  /\ contents = <<>>
  /\ file_count = 0
  /\ i = 0
  /\ bloaty_invocation = <<>>
  /\ expected_output = <<>>
  /\ failure = None
  /\ successes = 0
  /\ failures = <<>>
  /\ disk = <<>>
  /\ actual = <<>>
  /\ cases = <<>>
  /\ printed = None
  /\ exit_status = NoExit
  /\ prev = <<>>
  /\ flip = NoFlip
  /\ files = <<>>
  /\ ToolsIdle

\* the index of the first byte after the first line that begins with "$", looking
\* at the lines from index from on; Len(bytes) + 1 when there is no such byte
RECURSIVE ExpectedSection(_, _)
ExpectedSection(bytes, from) ==
  IF from > Len(bytes) THEN Len(bytes) + 1
  ELSE LET brk == IF \E q \in from..Len(bytes) : IsLineBreak(bytes[q])
                  THEN CHOOSE q \in from..Len(bytes) :
                         /\ IsLineBreak(bytes[q])
                         /\ \A r \in from..(q - 1) : ~IsLineBreak(bytes[r])
                  ELSE Len(bytes) + 1
           nxt == IF brk < Len(bytes) /\ bytes[brk] = CR /\ bytes[brk + 1] = LF
                  THEN brk + 2 ELSE brk + 1
       IN  IF bytes[from] = "$" THEN nxt ELSE ExpectedSection(bytes, nxt)

\* after the harness has ended: one byte of the expected-output section of the test
\* file of a passing case is changed, and the harness is started again on the same
\* arguments (a new process: the module state is as at the start; the directories
\* the first run retained are still on the disk)
Flip ==
  /\ pc = "exited"
  /\ flip = NoFlip
  /\ \E c \in 1..Len(cases) :
       /\ cases[c].outcome = "Pass"
       /\ LET path == cases[c].filename
              bytes == fs[path]
          IN  \E pos \in ExpectedSection(bytes, 1)..Len(bytes) :
                \E b \in FlipBytes \ {bytes[pos]} :
                  /\ fs' = [fs EXCEPT ![path][pos] = b]
                  /\ flip' = [case |-> c, path |-> path, pos |-> pos,
                              old |-> bytes[pos], new |-> b]
  /\ prev' = [k \in 1..Len(cases) |-> cases[k].outcome]
  /\ pc' = "main"
  /\ argi' = 1
  /\ filename' = None
  /\ tmpdir' = 0
  /\ contents' = <<>>
  /\ file_count' = 0
  /\ i' = 0
  /\ bloaty_invocation' = <<>>
  /\ expected_output' = <<>>
  /\ failure' = None
  /\ successes' = 0
  /\ failures' = <<>>
  /\ actual' = <<>>
  /\ cases' = <<>>
  /\ printed' = None
  /\ exit_status' = NoExit
  /\ files' = <<>>
  /\ UNCHANGED <<args, disk, oracle, tool_vars>>

NextFlip ==
  \/ Next
  \/ Flip

SpecFlip == InitFlip /\ [][NextFlip]_vars

-----------------------------------------------------------------------------
(* The harness run on a directory: the argument "d" is a directory with some   *)
(* of the entries of DirEntries below it, the argument "t1" is a file.         *)

DirD == <<"d">>

PathOf(dir, name) == dir \o <<"/">> \o name

PassingFile == CmdLine \o <<"h", LF>>

\* what may be below d: files that match "*.test" at two depths, a file whose name
\* only ends in "test", a hidden file, a file in a hidden directory, and a
\* directory whose name matches
DirEntries ==
  { [path |-> PathOf(DirD, <<"a">> \o TestSuffix), bytes |-> PassingFile],
    [path |-> PathOf(DirD, <<"b">> \o TestSuffix), bytes |-> <<"h", LF>>],
    [path |-> PathOf(PathOf(DirD, <<"a">>), <<"c">> \o TestSuffix),
     bytes |-> <<"-", "-", "-", LF>> \o PassingFile],
    [path |-> PathOf(DirD, <<"a", "t", "e", "s", "t">>), bytes |-> PassingFile],
    [path |-> PathOf(DirD, <<".", "b">> \o TestSuffix), bytes |-> PassingFile],
    [path |-> PathOf(PathOf(DirD, <<".", "a">>), <<"c">> \o TestSuffix),
     bytes |-> PassingFile],
    [path |-> PathOf(DirD, <<"c">> \o TestSuffix), bytes |-> Directory] }

\* the directories on the way to a path
ParentsOf(path) == {SubSeq(path, 1, k - 1) : k \in {j \in 1..Len(path) : path[j] = "/"}}

\* the file system that holds the file t1, the directory d and the entries of below
FsOf(below) ==
  LET dirs == {DirD} \cup UNION {ParentsOf(e.path) : e \in below}
      leaf(p) == CHOOSE e \in below : e.path = p
  IN  [p \in {PathName(1)} \cup dirs \cup {e.path : e \in below} |->
         IF p = PathName(1) THEN PassingFile
         ELSE IF p \in dirs THEN Directory
         ELSE leaf(p).bytes]

\* the command lines of the runs on a directory
DirArgLists == { <<>>, <<DirD>>, <<PathName(1), DirD>>, <<DirD, PathName(1)>> }

InitDir ==
  /\ args \in DirArgLists
  /\ \E below \in SUBSET DirEntries :
       /\ fs = FsOf(below)
       /\ oracle = [p \in DOMAIN FsOf(below) |-> FreeOracle]
  /\ pc = "main"
  /\ argi = 1
  /\ filename = None
  /\ tmpdir = 0
  /\ contents = <<>>
  /\ file_count = 0
  /\ i = 0
  /\ bloaty_invocation = <<>>
  /\ expected_output = <<>>
  /\ failure = None
  /\ successes = 0
  /\ failures = <<>>
  /\ disk = <<>>
  /\ actual = <<>>
  /\ cases = <<>>
  /\ printed = None
  /\ exit_status = NoExit
  /\ prev = <<>>
  /\ flip = NoFlip
  /\ files = <<>>
  /\ ToolsIdle

SpecDir == InitDir /\ [][Next]_vars

-----------------------------------------------------------------------------
(* third_party/darwin_xnu_macho/update_headers.py.  Paths are relative to       *)
(* script_dir; tree maps the paths that exist to their contents.               *)

\* lines 29-32: (source_path_in_repo, destination_path)
XNU_HEADERS ==
  << <<<<"o", "s", "f", "m", "k", "/", "m", "a", "c", "h", "/", "m", "a", "c", "h", "i", "n", "e", ".", "h">>,
       <<"m", "a", "c", "h", "/", "m", "a", "c", "h", "i", "n", "e", ".", "h">>>>,
     <<<<"o", "s", "f", "m", "k", "/", "m", "a", "c", "h", "/", "v", "m", "_", "p", "r", "o", "t", ".", "h">>,
       <<"m", "a", "c", "h", "/", "v", "m", "_", "p", "r", "o", "t", ".", "h">>>> >>

\* lines 34-38
CCTOOLS_HEADERS ==
  << <<<<"i", "n", "c", "l", "u", "d", "e", "/", "m", "a", "c", "h", "-", "o", "/", "f", "a", "t", ".", "h">>,
       <<"m", "a", "c", "h", "-", "o", "/", "f", "a", "t", ".", "h">>>>,
     <<<<"i", "n", "c", "l", "u", "d", "e", "/", "m", "a", "c", "h", "-", "o", "/", "l", "o", "a", "d", "e", "r", ".", "h">>,
       <<"m", "a", "c", "h", "-", "o", "/", "l", "o", "a", "d", "e", "r", ".", "h">>>>,
     <<<<"i", "n", "c", "l", "u", "d", "e", "/", "m", "a", "c", "h", "-", "o", "/", "n", "l", "i", "s", "t", ".", "h">>,
       <<"m", "a", "c", "h", "-", "o", "/", "n", "l", "i", "s", "t", ".", "h">>>> >>

ALL_HEADERS == XNU_HEADERS \o CCTOOLS_HEADERS

DestPaths == {ALL_HEADERS[k][2] : k \in 1..Len(ALL_HEADERS)}

METADATA == <<"M", "E", "T", "A", "D", "A", "T", "A">>

PATCHES == <<"p", "a", "t", "c", "h", "e", "s">>

NewSuffix == <<".", "n", "e", "w">>

PatchSuffix == <<".", "p", "a", "t", "c", "h">>

\* what the METADATA file may hold: both repositories, or not
GoodMetadata == <<"x", "c">>
BadMetadata == <<"x">>

\* what GitHub serves for a source path, what an installed header held before the
\* run, what a ".new" file left by an earlier run holds, what a patch file holds
Upstream(source_path) == <<"u", LF>>
OldHeader == <<"o", LF>>
StaleNew == <<"s", LF>>
SomePatch == <<"p", LF>>

\* the contents of a header after patch has applied a patch file to it
Patched(text) == text \o <<"+", LF>>

exists(path) == path \in DOMAIN tree

\* writing a file: created, or its contents replaced
WriteFile(t, path, text) ==
  [q \in DOMAIN t \cup {path} |-> IF q = path THEN text ELSE t[q]]

\* Path.unlink
Unlink(t, path) == [q \in DOMAIN t \ {path} |-> t[q]]

\* final_name.unlink() if it exists, then new_file.rename(final_name)
Rename(t, from, to) == WriteFile(Unlink(t, from), to, t[from])

\* str.endswith
EndsWith(text, suffix) ==
  /\ Len(text) >= Len(suffix)
  /\ SubSeq(text, Len(text) - Len(suffix) + 1, Len(text)) = suffix

\* a variant of DestFile: the download goes to the installed header itself
DestFile_in_place(dest_path) == dest_path

\* lines 261, 277: script_dir / (dest_path + ".new")
DestFile(dest_path) == dest_path \o NewSuffix

\* line 173: str(new_file)[:-4]
FinalName(new_file) == SubSeq(new_file, 1, Len(new_file) - 4)

\* str.replace(old, new): every occurrence of old, from the left
RECURSIVE replace(_, _, _)
replace(text, old, new) ==
  IF Len(text) < Len(old) THEN text
  ELSE IF SubSeq(text, 1, Len(old)) = old
       THEN new \o replace(SubSeq(text, Len(old) + 1, Len(text)), old, new)
       ELSE <<Head(text)>> \o replace(Tail(text), old, new)

\* generate_patches.py line 129: dest_path.replace("/", "_") + ".patch"
PatchName(dest_path) == replace(dest_path, <<"/">>, <<"_">>) \o PatchSuffix

PatchPath(dest_path) == PathOf(PATCHES, PatchName(dest_path))

\* the header a patch file of the patches directory changes: patch is run in the
\* directory patch_dirs gives (lines 180-196) on the file the patch names
TargetOf(patch_file) ==
  CHOOSE d \in DestPaths : PatchPath(d) = patch_file

\* script_dir.rglob("*.new")
rglob_new(t) == {q \in DOMAIN t : EndsWith(q, NewSuffix)}

\* patch_dir.glob("*.patch")
glob_patch(t) ==
  {q \in DOMAIN t : /\ Len(q) > Len(PATCHES) + 1
                    /\ SubSeq(q, 1, Len(PATCHES) + 1) = PathOf(PATCHES, <<>>)
                    /\ EndsWith(q, PatchSuffix)}

\* the entries of effects: a download, a run of patch, and whether it succeeded
Fetch(source_path, ok) == [op |-> "fetch", what |-> source_path, ok |-> ok]
RunPatch(patch_file, ok) == [op |-> "patch", what |-> patch_file, ok |-> ok]

\* a variant of MayMkdir: the directory is made in a dry run too
MayMkdir_always == TRUE

\* line 159: if not dry_run
MayMkdir == ~dry_run

\* lines 258, 274: if not args.dry_run
MayFetch == ~dry_run

\* line 171: if not dry_run
MayRename == ~dry_run

\* line 190: if not dry_run
MayPatch == ~dry_run

\* main returns
Return(status) ==
  /\ result' = status
  /\ hpc' = "returned"

\* lines 214-253: the arguments, METADATA and the two repositories
UpdateMain ==
  /\ hpc = "main"
  /\ IF ~exists(METADATA) \/ tree[METADATA] # GoodMetadata
     THEN /\ Return(1)
          /\ UNCHANGED idx
     ELSE /\ hpc' = "fetch_xnu"
          /\ idx' = 1
          /\ UNCHANGED result
  /\ UNCHANGED <<tester_vars, entry, dry_run, tree, tree0, patch_files, renamed_files,
                 patches_generated, effects, clock, run>>

\* one iteration of a loop over headers (lines 256-268, 272-284): download the
\* header and save it; any exception ends main with 1
FetchInto(headers, then) ==
  /\ IF MayFetch
     THEN \E ok \in BOOLEAN :
            /\ effects' = Append(effects, Fetch(headers[idx][1], ok))
            /\ IF ok
               THEN /\ tree' = WriteFile(tree, DestFile(headers[idx][2]),
                                          Upstream(headers[idx][1]))
                    /\ IF idx = Len(headers)
                       THEN hpc' = then /\ idx' = 1
                       ELSE idx' = idx + 1 /\ UNCHANGED hpc
                    /\ UNCHANGED result
               ELSE /\ Return(1)
                    /\ UNCHANGED <<tree, idx>>
     ELSE /\ IF idx = Len(headers)
             THEN hpc' = then /\ idx' = 1
             ELSE idx' = idx + 1 /\ UNCHANGED hpc
          /\ UNCHANGED <<effects, tree, result>>
  /\ UNCHANGED <<tester_vars, entry, dry_run, tree0, patch_files, renamed_files,
                 patches_generated, clock, run>>

\* lines 255-269
FetchXnu ==
  /\ hpc = "fetch_xnu"
  /\ FetchInto(XNU_HEADERS, "fetch_cctools")

\* lines 271-285
FetchCctools ==
  /\ hpc = "fetch_cctools"
  /\ FetchInto(CCTOOLS_HEADERS, "fetched")

\* lines 287-292: a dry run ends here, any other run calls apply_patches
AfterFetch ==
  /\ hpc = "fetched"
  /\ IF dry_run
     THEN Return(0)
     ELSE hpc' = "apply_patches" /\ UNCHANGED result
  /\ UNCHANGED <<tester_vars, entry, dry_run, tree, tree0, idx, patch_files,
                 renamed_files, patches_generated, effects, clock, run>>

\* lines 155-167: the patches directory and the patch files in it
ApplyPatches ==
  /\ hpc = "apply_patches"
  /\ IF ~exists(PATCHES)
     THEN /\ tree' = IF MayMkdir THEN WriteFile(tree, PATCHES, Directory) ELSE tree
          /\ hpc' = "applied"
          /\ UNCHANGED patch_files
     ELSE /\ patch_files' = sorted(glob_patch(tree))
          /\ hpc' = IF glob_patch(tree) = {} THEN "applied" ELSE "rename"
          /\ UNCHANGED tree
  /\ renamed_files' = <<>>
  /\ UNCHANGED <<tester_vars, entry, dry_run, tree0, idx, patches_generated, result,
                 effects, clock, run>>

\* lines 169-177, one iteration: a ".new" file takes the place of its final name
\* (rglob gives the files in the order of the directory, which is any order)
RenameNew ==
  /\ hpc = "rename"
  /\ IF MayRename /\ rglob_new(tree) # {}
     THEN \E new_file \in rglob_new(tree) :
            /\ tree' = Rename(tree, new_file, FinalName(new_file))
            /\ renamed_files' = Append(renamed_files, FinalName(new_file))
            /\ UNCHANGED <<hpc, idx>>
     ELSE /\ hpc' = "patch"
          /\ idx' = 1
          /\ UNCHANGED <<tree, renamed_files>>
  /\ UNCHANGED <<tester_vars, entry, dry_run, tree0, patch_files, patches_generated,
                 result, effects, clock, run>>

\* the statuses patch may end with: it fails when the header is not there
PatchStatuses(patch_file) ==
  IF exists(TargetOf(patch_file)) THEN ExitStatuses ELSE ExitStatuses \ {0}

\* lines 188-208, one iteration: patch is run on a patch file; a nonzero status is
\* a warning only
ApplyPatch ==
  /\ hpc = "patch"
  /\ IF MayPatch
     THEN \E returncode \in PatchStatuses(patch_files[idx]) :
            /\ effects' = Append(effects, RunPatch(patch_files[idx], returncode = 0))
            /\ tree' = IF returncode = 0
                       THEN [tree EXCEPT ![TargetOf(patch_files[idx])] = Patched(@)]
                       ELSE tree
     ELSE UNCHANGED <<effects, tree>>
  /\ IF idx = Len(patch_files)
     THEN hpc' = "applied" /\ UNCHANGED idx
     ELSE idx' = idx + 1 /\ UNCHANGED hpc
  /\ UNCHANGED <<tester_vars, entry, dry_run, tree0, patch_files, renamed_files,
                 patches_generated, result, clock, run>>

\* apply_patches returns (lines 162, 167, 210-211); main then returns 0 (lines 293-304)
UpdateComplete ==
  /\ hpc = "applied"
  /\ hpc' = "returned"
  /\ result' = IF entry = "main" THEN 0 ELSE result
  /\ UNCHANGED <<tester_vars, entry, dry_run, tree, tree0, idx, patch_files,
                 renamed_files, patches_generated, effects, clock, run>>

NextUpdate ==
  \/ UpdateMain
  \/ FetchXnu
  \/ FetchCctools
  \/ AfterFetch
  \/ ApplyPatches
  \/ RenameNew
  \/ ApplyPatch
  \/ UpdateComplete

\* the tester is not run
TesterIdle ==
  /\ args = <<>>
  /\ fs = [p \in Paths |-> Unread]
  /\ pc = "idle"
  /\ argi = 1
  /\ filename = None
  /\ tmpdir = 0
  /\ contents = <<>>
  /\ file_count = 0
  /\ i = 0
  /\ bloaty_invocation = <<>>
  /\ expected_output = <<>>
  /\ failure = None
  /\ successes = 0
  /\ failures = <<>>
  /\ disk = <<>>
  /\ actual = <<>>
  /\ cases = <<>>
  /\ printed = None
  /\ exit_status = NoExit
  /\ oracle = [p \in Paths |-> FreeOracle]
  /\ prev = <<>>
  /\ flip = NoFlip
  /\ files = <<>>

\* the files script_dir may hold when the script is started
TreeOf(S) == [q \in {e[1] : e \in S} |-> (CHOOSE e \in S : e[1] = q)[2]]

MetadataChoices == { {}, {<<METADATA, GoodMetadata>>}, {<<METADATA, BadMetadata>>} }

InstalledChoices ==
  { {}, {<<XNU_HEADERS[1][2], OldHeader>>}, {<<d, OldHeader>> : d \in DestPaths} }

NewChoices ==
  { {}, {<<DestFile(XNU_HEADERS[2][2]), StaleNew>>},
    {<<DestFile(d), StaleNew>> : d \in DestPaths} }

PatchChoices ==
  { {} } \cup
  { {<<PATCHES, Directory>>} \cup {<<PatchPath(d), SomePatch>> : d \in D} :
      D \in SUBSET {XNU_HEADERS[1][2], CCTOOLS_HEADERS[1][2]} }

InitialTrees ==
  {TreeOf(m \cup h \cup n \cup p) :
     m \in MetadataChoices, h \in InstalledChoices, n \in NewChoices, p \in PatchChoices}

InitUpdate ==
  /\ TesterIdle
  /\ entry \in {"main", "apply_patches"}
  /\ dry_run \in BOOLEAN
  /\ tree \in InitialTrees
  /\ tree0 = tree
  /\ hpc = entry
  /\ idx = 0
  /\ patch_files = <<>>
  /\ renamed_files = <<>>
  /\ patches_generated = <<>>
  /\ result = NoExit
  /\ effects = <<>>
  /\ clock = 0
  /\ run = 1

SpecUpdate == InitUpdate /\ [][NextUpdate]_vars

-----------------------------------------------------------------------------
(* third_party/darwin_xnu_macho/generate_patches.py *)

\* Path(__file__).parent.resolve()
script_dir == <<"/", "s">>

OrigSuffix == <<".", "o", "r", "i", "g">>

\* line 42: modified_file.parent / (modified_file.name + ".orig")
TempOriginal(modified_file) == modified_file \o OrigSuffix

\* text.split("\n")
RECURSIVE split_nl(_)
split_nl(text) ==
  IF \E p \in 1..Len(text) : text[p] = LF
  THEN LET p == CHOOSE q \in 1..Len(text) :
                  text[q] = LF /\ \A r \in 1..(q - 1) : text[r] # LF
       IN  <<SubSeq(text, 1, p - 1)>> \o split_nl(SubSeq(text, p + 1, Len(text)))
  ELSE <<text>>

\* the lines of a text, each with mark before it
RECURSIVE MarkedLines(_, _)
MarkedLines(mark, text) ==
  IF text = <<>> THEN <<>>
  ELSE IF \E p \in 1..Len(text) : text[p] = LF
       THEN LET b == CHOOSE q \in 1..Len(text) :
                       text[q] = LF /\ \A r \in 1..(q - 1) : text[r] # LF
            IN  <<mark>> \o SubSeq(text, 1, b) \o
                MarkedLines(mark, SubSeq(text, b + 1, Len(text)))
       ELSE <<mark>> \o text \o <<LF>>

\* diff -u a b (lines 48-52): status 0 and no output for equal files; otherwise
\* status 1, two header lines with the paths and the times of the files, and the
\* lines of a taken out and the lines of b put in
diff_u(a_path, a_text, a_time, b_path, b_text, b_time) ==
  IF a_text = b_text
  THEN [returncode |-> 0, stdout |-> <<>>]
  ELSE [returncode |-> 1,
        stdout |-> <<"-", "-", "-", " ">> \o a_path \o <<"\t">> \o str(a_time) \o <<LF>>
                   \o <<"+", "+", "+", " ">> \o b_path \o <<"\t">> \o str(b_time) \o <<LF>>
                   \o <<"@", "@", LF>>
                   \o MarkedLines("-", a_text) \o MarkedLines("+", b_text)]

\* the time the modified header was last written
ModifiedTime == 0

\* lines 42-65: the output of diff for a header, with the two paths shortened
NewPatchContent(dest_path, original_content, modified_content, now) ==
  LET modified_file == PathOf(script_dir, dest_path)
      temp_original == TempOriginal(modified_file)
      out == diff_u(temp_original, original_content, now,
                    modified_file, modified_content, ModifiedTime).stdout
  IN  replace(replace(out, temp_original, basename(modified_file) \o OrigSuffix),
              modified_file, basename(modified_file))

\* a variant of SkipTimestamps: the two header lines are compared too
SkipTimestamps_none(lines) == lines

\* lines 73-74: [2:]
SkipTimestamps(lines) == SubSeq(lines, 3, Len(lines))

\* an entry of effects: a call of generate_patch and what it returned
GenPatch(patch_file, returned) == [op |-> "generate_patch", what |-> patch_file, ok |-> returned]

\* lines 29-88 and 119-140, one iteration of the loop of process_headers: the
\* header is downloaded and compared with the modified file; an exception (the
\* download fails, diff ends with a status above 1) goes up to main, which returns 1
ProcessHeader(headers, then) ==
  LET source_path == headers[idx][1]
      dest_path == headers[idx][2]
      patch_file == PatchPath(dest_path)
      next == IF idx = Len(headers)
              THEN hpc' = then /\ idx' = 1
              ELSE idx' = idx + 1 /\ UNCHANGED hpc
  IN  /\ IF ~exists(dest_path)
         THEN /\ next
              /\ UNCHANGED <<tree, effects, clock, patches_generated, result>>
         ELSE \E ok \in BOOLEAN, trouble \in BOOLEAN :
                IF ~ok \/ trouble
                THEN /\ effects' = Append(effects, Fetch(source_path, ok))
                     /\ Return(1)
                     /\ clock' = IF ok THEN clock + 1 ELSE clock
                     /\ UNCHANGED <<tree, idx, patches_generated>>
                ELSE LET new_patch_content ==
                           NewPatchContent(dest_path, Upstream(source_path),
                                           tree[dest_path], clock)
                         same == /\ exists(patch_file)
                                 /\ SkipTimestamps(split_nl(tree[patch_file]))
                                      = SkipTimestamps(split_nl(new_patch_content))
                         differ == diff_u(<<>>, Upstream(source_path), clock,
                                          <<>>, tree[dest_path], ModifiedTime).returncode = 1
                         returned == differ /\ ~same
                     IN  /\ tree' = IF returned
                                    THEN WriteFile(tree, patch_file, new_patch_content)
                                    ELSE tree
                         /\ patches_generated' =
                              IF returned \/ exists(patch_file)
                              THEN Append(patches_generated, PatchName(dest_path))
                              ELSE patches_generated
                         /\ effects' = effects \o <<Fetch(source_path, TRUE),
                                                    GenPatch(patch_file, returned)>>
                         /\ clock' = clock + 1
                         /\ next
                         /\ UNCHANGED result
      /\ UNCHANGED <<tester_vars, entry, dry_run, tree0, patch_files, renamed_files, run>>

\* lines 146-178
GenMain ==
  /\ hpc = "gen_main"
  /\ IF ~exists(METADATA) \/ tree[METADATA] # GoodMetadata
     THEN /\ Return(1)
          /\ UNCHANGED <<tree, idx>>
     ELSE /\ tree' = IF exists(PATCHES) THEN tree ELSE WriteFile(tree, PATCHES, Directory)
          /\ hpc' = "process_xnu"
          /\ idx' = 1
          /\ UNCHANGED result
  /\ patches_generated' = <<>>
  /\ UNCHANGED <<tester_vars, entry, dry_run, tree0, patch_files, renamed_files,
                 effects, clock, run>>

\* lines 180-182
ProcessXnu ==
  /\ hpc = "process_xnu"
  /\ ProcessHeader(XNU_HEADERS, "process_cctools")

\* lines 183-185
ProcessCctools ==
  /\ hpc = "process_cctools"
  /\ ProcessHeader(CCTOOLS_HEADERS, "processed")

\* lines 190-200
GenComplete ==
  /\ hpc = "processed"
  /\ Return(0)
  /\ UNCHANGED <<tester_vars, entry, dry_run, tree, tree0, idx, patch_files,
                 renamed_files, patches_generated, effects, clock, run>>

\* the script is run a second time, right after a run that returned 0: the headers
\* and what GitHub serves are as they were, the time has moved on
GenAgain ==
  /\ hpc = "returned"
  /\ result = 0
  /\ run = 1
  /\ run' = 2
  /\ tree0' = tree
  /\ hpc' = "gen_main"
  /\ idx' = 0
  /\ result' = NoExit
  /\ effects' = <<>>
  /\ UNCHANGED <<tester_vars, entry, dry_run, tree, patch_files, renamed_files,
                 patches_generated, clock>>

NextGen ==
  \/ GenMain
  \/ ProcessXnu
  \/ ProcessCctools
  \/ GenComplete
  \/ GenAgain

\* the patch an earlier run wrote for a header with a local modification
OldPatch(k) ==
  NewPatchContent(ALL_HEADERS[k][2], Upstream(ALL_HEADERS[k][1]),
                  Patched(Upstream(ALL_HEADERS[k][1])), 0)

\* a header before the run: not there, as upstream or modified; its patch file: not
\* there, written by an earlier run, or something else
HeaderChoices(k) ==
  { m \cup q :
      m \in { {}, {<<ALL_HEADERS[k][2], Upstream(ALL_HEADERS[k][1])>>},
                  {<<ALL_HEADERS[k][2], Patched(Upstream(ALL_HEADERS[k][1]))>>} },
      q \in { {}, {<<PatchPath(ALL_HEADERS[k][2]), OldPatch(k)>>},
                  {<<PatchPath(ALL_HEADERS[k][2]), SomePatch>>} } }

\* the headers whose state varies; the others are as upstream, without a patch
Varied == {1, Len(XNU_HEADERS) + 1}

GenTrees ==
  {TreeOf(m \cup a \cup b
          \cup {<<ALL_HEADERS[k][2], Upstream(ALL_HEADERS[k][1])>> :
                  k \in (1..Len(ALL_HEADERS)) \ Varied}
          \cup (IF \E e \in a \cup b : EndsWith(e[1], PatchSuffix)
                THEN {<<PATCHES, Directory>>} ELSE {})) :
     m \in MetadataChoices, a \in HeaderChoices(1),
     b \in HeaderChoices(Len(XNU_HEADERS) + 1)}

InitGen ==
  /\ TesterIdle
  /\ entry = "main"
  /\ dry_run = FALSE
  /\ tree \in GenTrees
  /\ tree0 = tree
  /\ hpc = "gen_main"
  /\ idx = 0
  /\ patch_files = <<>>
  /\ renamed_files = <<>>
  /\ patches_generated = <<>>
  /\ result = NoExit
  /\ effects = <<>>
  /\ clock = 1
  /\ run = 1

SpecGen == InitGen /\ [][NextGen]_vars

-----------------------------------------------------------------------------
(* Notions the claims are stated in *)

Started == 1..Len(cases)

OutcomeAt(k) == cases[k].outcome

DirOf(k) == disk[cases[k].tmpdir]

\* the names the fixtures of n documents have: unpadded decimal numerals
Numeral(n) ==
  IF n < 10 THEN <<Digits[n + 1]>>
  ELSE <<Digits[(n \div 10) + 1], Digits[(n % 10) + 1]>>

Numerals(n) == {Numeral(k) : k \in 1..n}

\* text.split("\n")
RECURSIVE SplitAtLF(_)
SplitAtLF(text) ==
  IF \E p \in 1..Len(text) : text[p] = LF
  THEN LET p == CHOOSE q \in 1..Len(text) :
                  text[q] = LF /\ \A r \in 1..(q - 1) : text[r] # LF
       IN  <<SubSeq(text, 1, p - 1)>> \o SplitAtLF(SubSeq(text, p + 1, Len(text)))
  ELSE <<text>>

Marker == <<"-", "-", "-">>

BeginsWithMarker(line) == Len(line) >= 3 /\ SubSeq(line, 1, 3) = Marker

\* the number of lines that are exactly the marker
ExactMarkerLines(text) ==
  Cardinality({k \in 1..Len(SplitAtLF(text)) : SplitAtLF(text)[k] = Marker})

\* the number of lines that begin with the marker
MarkerLines(text) ==
  Cardinality({k \in 1..Len(SplitAtLF(text)) : BeginsWithMarker(SplitAtLF(text)[k])})

\* some line of the text begins with the command marker
HasCommandLine(text) ==
  \E p \in 1..Len(text) : text[p] = "$" /\ (p = 1 \/ IsLineBreak(text[p - 1]))

\* the first line that begins with the command marker
CommandLineNo(list) ==
  CHOOSE k \in 1..Len(list) :
    /\ list[k] # <<>> /\ Head(list[k]) = "$"
    /\ \A j \in 1..(k - 1) : list[j] = <<>> \/ Head(list[j]) # "$"

\* a text without its leading and trailing blanks
RECURSIVE Strip(_)
Strip(text) ==
  IF text = <<>> THEN <<>>
  ELSE IF Head(text) = " " THEN Strip(Tail(text))
  ELSE IF text[Len(text)] = " " THEN Strip(SubSeq(text, 1, Len(text) - 1))
  ELSE text

\* the entries <<source path, directory>> of the cases with an outcome in S, in order
RECURSIVE Entries(_, _)
Entries(list, S) ==
  IF list = <<>> THEN <<>>
  ELSE (IF Head(list).outcome \in S
        THEN <<<<Head(list).filename, Head(list).tmpdir>>>> ELSE <<>>)
       \o Entries(Tail(list), S)

PassCount == Cardinality({k \in Started : OutcomeAt(k) = "Pass"})

\* the step of ParseLines that found the command line
ParsedStep == pc = "yaml2obj" /\ pc' = "bloaty"

-----------------------------------------------------------------------------
(* C1 *)

\* C1 as stated: a ProvisioningError, a Crashed and a Mismatch outcome are each local
\* to their case: when the harness has ended, every case after such a case was
\* started and reached an outcome of its own.
C1_Original ==
  pc = "exited" =>
    \A k \in Started :
      OutcomeAt(k) \in {"ProvisioningError", "Crashed", "Mismatch"} =>
        \A j \in (k + 1)..Len(args) : j \in Started /\ OutcomeAt(j) # "Running"

\* C1, amended: Crashed and Mismatch are local to their case: when the harness has
\* ended, the case after a Crashed or Mismatch case (if there is one) was started and
\* is no longer running.  A nonzero exit of the fixture compiler is not local: it ends
\* the harness at that case with status 1, no later case started, no summary printed.
C1_CrashedAndMismatchAreLocal ==
  \A k \in Started :
    /\ (pc = "exited" /\ OutcomeAt(k) \in {"Crashed", "Mismatch"} /\ k < Len(args))
         => (k + 1 \in Started /\ OutcomeAt(k + 1) # "Running")
    /\ OutcomeAt(k) = "ProvisioningError"
         => (pc = "exited" /\ exit_status = 1 /\ k = Len(cases) /\ printed = None)

C1_Witness ==
  /\ pc = "exited"
  /\ Len(cases) = 2
  /\ OutcomeAt(1) = "Crashed"
  /\ OutcomeAt(2) = "Pass"

-----------------------------------------------------------------------------
(* C2 *)

\* C2: the working directory of a started case is deleted if and only if the outcome
\* of the case is Pass; after every other end of a case (and while it runs) the
\* directory exists, up to and including the end of the harness.
C2_DeletedIffPass ==
  \A k \in Started : (~DirOf(k).exists) <=> (OutcomeAt(k) = "Pass")

C2_Witness ==
  /\ pc = "exited"
  /\ Len(cases) = 2
  /\ OutcomeAt(1) = "Pass" /\ ~DirOf(1).exists
  /\ OutcomeAt(2) = "ProvisioningError" /\ DirOf(2).exists

-----------------------------------------------------------------------------
(* C3 *)

\* C3 as stated: successes is the number of Pass cases and failures holds one entry
\* (source path, directory) for each ProvisioningError, Crashed or Mismatch case, in
\* the order the cases were processed.
C3_Original ==
  /\ successes = PassCount
  /\ failures = Entries(cases, {"ProvisioningError", "Crashed", "Mismatch"})

\* C3, amended: successes is the number of Pass cases and failures holds one entry
\* (source path, directory) for each Crashed or Mismatch case, in the order the cases
\* were processed, the directory being the retained one of that case; a case whose
\* fixture compiler failed has no entry.
C3_ReportAccountsForCases ==
  /\ successes = PassCount
  /\ failures = Entries(cases, {"Crashed", "Mismatch"})
  /\ \A n \in 1..Len(failures) : disk[failures[n][2]].exists

C3_Witness ==
  /\ pc = "exited"
  /\ Len(failures) = 2
  /\ OutcomeAt(1) = "Mismatch"
  /\ OutcomeAt(2) = "Crashed"

-----------------------------------------------------------------------------
(* C4 *)

\* C4: once the bloaty command of a case has exited with a nonzero status, the case is
\* Crashed whatever was written to "actual": the file "expected" is never written,
\* diff is never run, and failure is CRASHED until the case is reported.
C4_NonzeroExitIsCrashed ==
  \A k \in Started :
    cases[k].bloaty_status \notin {NoExit, 0} =>
      /\ EXPECTED \notin DirOf(k).files
      /\ OutcomeAt(k) \in {"Running", "Crashed"}
      /\ OutcomeAt(k) = "Running" => (pc = "report" /\ failure = "CRASHED")

C4_Witness ==
  /\ pc = "report"
  /\ cases[CaseNo].bloaty_status = 1
  /\ actual = expected_output
  /\ failure = "CRASHED"

-----------------------------------------------------------------------------
(* C5 *)

\* C5: the harness exits with status 0 if and only if it was given arguments, every
\* case was run and every case passed; in every other run it exits with status 1.
C5_ExitStatus ==
  pc = "exited" =>
    /\ exit_status \in {0, 1}
    /\ exit_status = 0 <=>
         /\ args # <<>>
         /\ Len(cases) = Len(args)
         /\ \A k \in Started : OutcomeAt(k) = "Pass"

C5_Witness ==
  /\ pc = "exited"
  /\ exit_status = 0
  /\ Len(cases) = 2

-----------------------------------------------------------------------------
(* C6 *)

\* C6 as stated: when the provisioning loop has finished, the fixtures in the working
\* directory are "1".."N" for N the number of lines that are exactly "---".
C6_Original ==
  (pc = "yaml2obj" /\ i > file_count) =>
    DirOf(CaseNo).files = Numerals(ExactMarkerLines(contents))

\* C6, amended: with N the number of lines that begin with "---" (whatever follows on
\* the line), the fixture compiler is requested for the documents 1, 2, ... in this
\* order, up to N or up to the first document for which it exits nonzero, and the
\* files it writes are named by the unpadded decimal numerals of these documents.
C6_FixturesOfMarkerLines ==
  /\ pc = "yaml2obj" =>
       /\ file_count = MarkerLines(contents)
       /\ i \in 1..(file_count + 1)
       /\ DirOf(CaseNo).files = Numerals(i - 1)
  /\ pc \in {"bloaty", "diff", "report"} =>
       DirOf(CaseNo).files \ {ACTUAL, EXPECTED} = Numerals(file_count)
  /\ \A k \in Started :
       OutcomeAt(k) = "ProvisioningError" =>
         /\ i \in 1..MarkerLines(contents)
         /\ DirOf(k).files = Numerals(i)

C6_Witness ==
  /\ pc = "yaml2obj"
  /\ i > file_count
  /\ file_count = 2
  /\ ExactMarkerLines(contents) = 1
  /\ DirOf(CaseNo).files = {<<"1">>, <<"2">>}

-----------------------------------------------------------------------------
(* C7 *)

\* C7 as stated: after Pass the working directory does not exist; after
\* ProvisioningError, Crashed or Mismatch it exists and holds "actual", and after
\* Mismatch it holds "expected" too.
C7_Original ==
  \A k \in Started :
    /\ OutcomeAt(k) = "Pass" => ~DirOf(k).exists
    /\ OutcomeAt(k) \in {"ProvisioningError", "Crashed", "Mismatch"} =>
         (DirOf(k).exists /\ ACTUAL \in DirOf(k).files)
    /\ OutcomeAt(k) = "Mismatch" => EXPECTED \in DirOf(k).files

\* C7, amended: after Pass the working directory does not exist; after Crashed or
\* Mismatch it exists and holds "actual", after Mismatch "expected" too (and after
\* Crashed not); after a failure of the fixture compiler it exists and holds the
\* fixture files written so far, but neither "actual" nor "expected".
C7_DirectoryContents ==
  \A k \in Started :
    /\ OutcomeAt(k) = "Pass" => ~DirOf(k).exists
    /\ OutcomeAt(k) \in {"Crashed", "Mismatch"} =>
         (DirOf(k).exists /\ ACTUAL \in DirOf(k).files)
    /\ OutcomeAt(k) = "Mismatch" => EXPECTED \in DirOf(k).files
    /\ OutcomeAt(k) = "Crashed" => EXPECTED \notin DirOf(k).files
    /\ OutcomeAt(k) = "ProvisioningError" =>
         /\ DirOf(k).exists
         /\ DirOf(k).files # {}
         /\ ACTUAL \notin DirOf(k).files
         /\ EXPECTED \notin DirOf(k).files

C7_Witness ==
  /\ pc = "exited"
  /\ Len(cases) = 2
  /\ OutcomeAt(1) = "Mismatch"
  /\ DirOf(1).files = {ACTUAL, EXPECTED}
  /\ OutcomeAt(2) = "ProvisioningError"

-----------------------------------------------------------------------------
(* C9 *)

\* C9: parsing a file that is empty, or that has no line beginning with "$", fails
\* with a FormatError; a FormatError ends the harness at that case: no later case is
\* run, no summary is printed and the exit status is 1.
C9_FormatErrorIsFatal ==
  /\ [](\A k \in Started :
          OutcomeAt(k) = "FormatError" =>
            /\ k = Len(cases)
            /\ pc = "exited"
            /\ exit_status = 1
            /\ printed = None
            /\ ~HasCommandLine(contents))
  /\ [][(pc = "yaml2obj" /\ i > file_count /\ ~HasCommandLine(contents)) =>
          (pc' = "exited" /\ cases'[CaseNo].outcome = "FormatError")]_vars

C9_Witness ==
  /\ pc = "exited"
  /\ Len(args) = 2
  /\ Len(cases) = 1
  /\ OutcomeAt(1) = "FormatError"
  /\ contents # <<>>

-----------------------------------------------------------------------------
(* C10 *)

\* C10 as stated: the command is the first line that begins with "$", with the marker
\* and the surrounding whitespace stripped; the expected output is the lines after it,
\* each followed by one "\n", or the single "\n" when there are none.
C10_Original ==
  [][ParsedStep =>
       LET list == splitlines(contents)
           n == CommandLineNo(list)
           rest == SubSeq(list, n + 1, Len(list))
       IN  /\ bloaty_invocation' = path_join(cwd, Strip(Tail(list[n]))) \o Redirect
           /\ expected_output' = IF rest = <<>> THEN <<LF>> ELSE TerminateAll(rest)]_vars

\* C10, amended: the command is the first line that begins with "$", without its first
\* two characters (the marker and the character after it, whatever it is) and with
\* nothing else stripped; the expected output is the lines after it, each followed by
\* one "\n", or the single "\n" when there are none; the lines before it contribute
\* to neither.
C10_ParsedFields ==
  [][ParsedStep =>
       LET list == splitlines(contents)
           n == CommandLineNo(list)
           rest == SubSeq(list, n + 1, Len(list))
           template == [k \in 1..(Len(list[n]) - 2) |-> list[n][k + 2]]
       IN  /\ bloaty_invocation' = path_join(cwd, template) \o Redirect
           /\ expected_output' = IF rest = <<>> THEN <<LF>> ELSE TerminateAll(rest)]_vars

C10_Witness ==
  /\ pc = "bloaty"
  /\ bloaty_invocation = <<"/", "w", "/", "c">> \o Redirect
  /\ expected_output = <<"h", LF>>
  /\ file_count = 1

-----------------------------------------------------------------------------
(* C8 *)

\* the second run has ended
SecondRunDone == flip # NoFlip /\ pc = "exited"

\* the flipped case is now a Mismatch and every other case ended as in the first run
OnlyFlippedCaseChanged ==
  /\ flip.case \in Started
  /\ OutcomeAt(flip.case) = "Mismatch"
  /\ \A k \in 1..Len(prev) :
       k # flip.case => (k \in Started /\ OutcomeAt(k) = prev[k])

\* the test file of the flipped case as it was in the first run
FileBeforeFlip == [fs[flip.path] EXCEPT ![flip.pos] = flip.old]

-----------------------------------------------------------------------------
(* C11 *)

\* a step of the provisioning loop: the shell has created one more file
CompileStep == pc = "yaml2obj" /\ disk' # disk

\* the fixtures on the disk when the fixture compiler has failed, and when the bloaty
\* command is about to be started
FixturesAtEnd ==
  /\ \A k \in Started :
       OutcomeAt(k) = "ProvisioningError" =>
         /\ cases[k].bloaty_status = NoExit
         /\ ACTUAL \notin DirOf(k).files
         /\ i \in 1..file_count
         /\ DirOf(k).files = Numerals(i)
         /\ pc = "exited"
  /\ pc = "bloaty" =>
       /\ DirOf(CaseNo).files = Numerals(file_count)
       /\ cases[CaseNo].bloaty_status = NoExit

\* C11: within one case the fixture compiler is run for the documents 1, 2, ... in
\* this order, one at a time; its first nonzero exit, at document i, ends the case
\* with a ProvisioningError: no document after i is requested and the bloaty command
\* of the case is never started; when all N runs succeed, the working directory holds
\* exactly the files "1".."N" at the moment the bloaty command is started.
C11_FixturesInOrder ==
  /\ []FixturesAtEnd
  /\ [][CompileStep =>
          /\ i = Cardinality(disk[tmpdir].files) + 1
          /\ disk'[tmpdir].files = disk[tmpdir].files \cup {Numeral(i)}
          /\ \/ i' = i + 1 /\ pc' = "yaml2obj"
             \/ i' = i /\ pc' = "exited" /\ cases'[CaseNo].outcome = "ProvisioningError"]_vars

C11_Witness ==
  /\ pc = "exited"
  /\ Len(cases) = 2
  /\ OutcomeAt(1) = "Crashed"
  /\ OutcomeAt(2) = "ProvisioningError"
  /\ file_count = 3
  /\ i = 2
  /\ DirOf(2).files = {<<"1">>, <<"2">>}

-----------------------------------------------------------------------------
(* C12 *)

\* the paths TestFile has started a case on, in order
Run == [k \in 1..Len(cases) |-> cases[k].filename]

\* path p comes before path q in the order of the path strings
Before(p, q) ==
  \E k \in 1..Len(q) :
    /\ k - 1 <= Len(p)
    /\ \A j \in 1..(k - 1) : p[j] = q[j]
    /\ \/ k = Len(p) + 1
       \/ k <= Len(p) /\ ord(p[k]) < ord(q[k])

\* the paths of S in ascending order
Ascending(S) ==
  [k \in 1..Cardinality(S) |->
     CHOOSE p \in S : Cardinality({q \in S : Before(q, p)}) = k - 1]

Below(dir, p) == Len(p) > Len(dir) + 1 /\ SubSeq(p, 1, Len(dir) + 1) = PathOf(dir, <<>>)

EndsInTest(p) ==
  Len(p) >= 5 /\ [k \in 1..5 |-> p[Len(p) - 5 + k]] = <<".", "t", "e", "s", "t">>

\* no name on the way from dir to p, the name of p included, begins with "."
NothingHidden(dir, p) ==
  \A k \in (Len(dir) + 1)..(Len(p) - 1) : p[k] = "/" => p[k + 1] # "."

\* the files below dir whose names end in ".test"
FilesWithSuffix(dir) ==
  {p \in DOMAIN fs : Below(dir, p) /\ fs[p] # Directory /\ EndsInTest(p)}

\* the entries below dir, files or not, whose names end in ".test" and that are
\* neither hidden nor below a hidden directory
EntriesMatched(dir) ==
  {p \in DOMAIN fs : Below(dir, p) /\ EndsInTest(p) /\ NothingHidden(dir, p)}

RECURSIVE Flatten(_)
Flatten(lists) == IF lists = <<>> THEN <<>> ELSE Head(lists) \o Flatten(Tail(lists))

IsPrefix(a, b) == Len(a) <= Len(b) /\ SubSeq(b, 1, Len(a)) = a

ExpectedOriginal ==
  Flatten([k \in 1..Len(args) |->
             IF isdir(args[k]) THEN Ascending(FilesWithSuffix(args[k])) ELSE <<args[k]>>])

ExpectedRun ==
  Flatten([k \in 1..Len(args) |->
             IF isdir(args[k]) THEN Ascending(EntriesMatched(args[k])) ELSE <<args[k]>>])

SummaryPrinted == printed \in {"SUCCESS", "FAILURE"}

\* C12 as stated: the cases run for a directory argument are the files below it, at
\* any depth, whose names end in ".test", in ascending path order; a file argument is
\* run as it is; the arguments are handled in the order given.
C12_Original ==
  /\ IsPrefix(Run, ExpectedOriginal)
  /\ SummaryPrinted => Run = ExpectedOriginal

\* C12, amended: for a directory argument TestFile is called on the entries below it,
\* at any depth, whose names end in ".test" and that are not hidden (neither their
\* name nor the name of a directory on the way down begins with "."), in ascending
\* order of the path strings; a file argument is run as it is; the arguments are
\* handled in the order given.  The cases run are at every moment a prefix of this
\* sequence, and all of it when the summary is printed; the sequence ends early only
\* at a fatal error: a fixture compiler failure, a file without a command line, or a
\* matching entry that is a directory (open raises).
C12_DiscoveryOrder ==
  /\ IsPrefix(Run, ExpectedRun)
  /\ SummaryPrinted => Run = ExpectedRun
  /\ pc = "TestFile" =>
       (Len(Run) < Len(ExpectedRun) /\ filename = ExpectedRun[Len(Run) + 1])
  /\ (pc = "exited" /\ printed = None) =>
       \/ cases # <<>> /\ OutcomeAt(Len(cases)) \in {"ProvisioningError", "FormatError"}
       \/ /\ Len(Run) < Len(ExpectedRun)
          /\ filename = ExpectedRun[Len(Run) + 1]
          /\ isdir(filename)

C12_Witness ==
  /\ SummaryPrinted
  /\ args = <<PathName(1), DirD>>
  /\ Len(cases) = 3
  /\ Run = <<PathName(1),
             <<"d", "/", "a", ".", "t", "e", "s", "t">>,
             <<"d", "/", "a", "/", "c", ".", "t", "e", "s", "t">>>>
  /\ <<"d", "/", ".", "b", ".", "t", "e", "s", "t">> \in DOMAIN fs
  /\ <<"d", "/", "a", "t", "e", "s", "t">> \in DOMAIN fs
  /\ OutcomeAt(2) = "Crashed"

-----------------------------------------------------------------------------
(* C13 *)

\* C13: started without arguments, the harness prints the usage message and exits
\* with status 1, and does nothing else: no case is started, no working directory is
\* created, no fixture compiler, command or diff is run, and successes and failures
\* stay as they were.
C13_UsageOnly ==
  args = <<>> =>
    /\ pc \in {"main", "exited"}
    /\ cases = <<>>
    /\ disk = <<>>
    /\ filename = None
    /\ successes = 0
    /\ failures = <<>>
    /\ pc = "main" => (printed = None /\ exit_status = NoExit)
    /\ pc = "exited" => (printed = "Usage" /\ exit_status = 1)

C13_Witness ==
  /\ args = <<>>
  /\ pc = "exited"
  /\ printed = "Usage"
  /\ exit_status = 1

-----------------------------------------------------------------------------
(* C17 *)

\* the step in which the command line is searched for (found or not)
SearchStep ==
  /\ pc = "yaml2obj"
  /\ \/ pc' = "bloaty"
     \/ pc' = "exited" /\ cases'[CaseNo].outcome = "FormatError"

\* the working directory of a case that ended with a FormatError
FormatErrorLeaves ==
  \A k \in Started :
    OutcomeAt(k) = "FormatError" =>
      /\ pc = "exited"
      /\ DirOf(k).exists
      /\ DirOf(k).files = Numerals(MarkerLines(contents))
      /\ \A n \in 1..Len(failures) : failures[n] # <<cases[k].filename, cases[k].tmpdir>>
      /\ Len(failures) = Cardinality({j \in Started : OutcomeAt(j) \in {"Crashed", "Mismatch"}})

\* C17: the working directory is created and the fixture compiler is run for every
\* document 1..N before the command line is searched for; so a test file with N lines
\* beginning with "---" and no command line gets its working directory and its N
\* runs of the fixture compiler before the FormatError is raised, and when the
\* harness aborts that directory is neither deleted nor recorded in failures.
C17_ProvisionedBeforeParse ==
  /\ []FormatErrorLeaves
  /\ [][SearchStep =>
          /\ disk[tmpdir].exists
          /\ disk[tmpdir].files = Numerals(MarkerLines(contents))
          /\ disk' = disk
          /\ failures' = failures]_vars

C17_Witness ==
  /\ pc = "exited"
  /\ Len(cases) = 2
  /\ OutcomeAt(1) = "Mismatch"
  /\ OutcomeAt(2) = "FormatError"
  /\ DirOf(2).files = {<<"1">>, <<"2">>}
  /\ Len(failures) = 1

-----------------------------------------------------------------------------
(* C14 *)

\* C14: in a dry run nothing below script_dir changes: no header is downloaded, no
\* ".new" file is written, no file is renamed or deleted, the patches directory is
\* not created and patch is not run; this holds for main, which returns before the
\* patch step (with 0 when METADATA names the two repositories), and for
\* apply_patches called with dry_run=True, whatever the patches directory holds.
C14_DryRunChangesNothing ==
  dry_run =>
    /\ tree = tree0
    /\ effects = <<>>
    /\ renamed_files = <<>>
    /\ entry = "main" =>
         /\ hpc \in {"main", "fetch_xnu", "fetch_cctools", "fetched", "returned"}
         /\ hpc = "returned" =>
              result = (IF exists(METADATA) /\ tree[METADATA] = GoodMetadata
                        THEN 0 ELSE 1)

C14_Witness ==
  /\ dry_run
  /\ entry = "apply_patches"
  /\ hpc = "returned"
  /\ Len(patch_files) = 2
  /\ rglob_new(tree) # {}
  /\ DestPaths \subseteq DOMAIN tree

-----------------------------------------------------------------------------
(* C18 *)

\* the installed headers (the files with the final names) are as at the start
InstalledUntouched ==
  \A d \in DestPaths :
    /\ (d \in DOMAIN tree) <=> (d \in DOMAIN tree0)
    /\ d \in DOMAIN tree => tree[d] = tree0[d]

FetchFailed == \E n \in 1..Len(effects) : effects[n].op = "fetch" /\ ~effects[n].ok

\* every header of the two lists was downloaded, in the order of the lists
AllFetched ==
  /\ Len(effects) >= Len(ALL_HEADERS)
  /\ \A n \in 1..Len(ALL_HEADERS) : effects[n] = Fetch(ALL_HEADERS[n][1], TRUE)

\* C18: main, not in a dry run, writes what it downloads to "<dest>.new" files only;
\* when a download fails main returns 1 with every installed header as it was (not
\* modified, not deleted, not renamed) and apply_patches is not reached; an
\* installed header changes only after all XNU and cctools headers were downloaded.
C18_FetchThenInstall ==
  (entry = "main" /\ ~dry_run) =>
    /\ hpc \in {"main", "fetch_xnu", "fetch_cctools", "fetched"} =>
         \A q \in DOMAIN tree \cup DOMAIN tree0 :
           \/ q \in DOMAIN tree /\ q \in DOMAIN tree0 /\ tree[q] = tree0[q]
           \/ \E d \in DestPaths : q = d \o <<".", "n", "e", "w">>
    /\ FetchFailed =>
         /\ hpc = "returned"
         /\ result = 1
         /\ InstalledUntouched
         /\ \A n \in 1..Len(effects) : effects[n].op = "fetch"
    /\ hpc \in {"apply_patches", "rename", "patch", "applied"} => AllFetched
    /\ ~InstalledUntouched => AllFetched

C18_Witness ==
  /\ entry = "main"
  /\ ~dry_run
  /\ hpc = "returned"
  /\ result = 1
  /\ Len(effects) = 4
  /\ DestPaths \subseteq DOMAIN tree0
  /\ Len(sorted(glob_patch(tree))) = 2

-----------------------------------------------------------------------------
(* C16 *)

\* in this step a ".new" file takes the place of an installed header
HeaderReplaced ==
  \E new_file \in rglob_new(tree) :
    /\ new_file \notin DOMAIN tree'
    /\ FinalName(new_file) \in DOMAIN tree

\* patch has been run on every patch file
PatchesApplied ==
  \A k \in 1..Len(patch_files) :
    \E n \in 1..Len(effects) : effects[n].op = "patch" /\ effects[n].what = patch_files[k]

\* C16: in apply_patches with dry_run=False the patch files are applied first and the
\* ".new" files are given their final names only afterwards: no installed header is
\* deleted or replaced before patch has been run on the patch files.
C16_Original == [][(~dry_run /\ HeaderReplaced) => PatchesApplied]_vars

-----------------------------------------------------------------------------
(* C15 *)

LFPositions(text) == {p \in 1..Len(text) : text[p] = LF}

\* the text after its first two lines; a text of fewer than two lines has none
AfterTwoLines(text) ==
  LET second == CHOOSE p \in LFPositions(text) :
                  Cardinality({q \in LFPositions(text) : q < p}) = 1
  IN  SubSeq(text, second + 1, Len(text))

SameButTimestamps(a, b) ==
  /\ Cardinality(LFPositions(a)) >= 2
  /\ Cardinality(LFPositions(b)) >= 2
  /\ AfterTwoLines(a) = AfterTwoLines(b)

PatchFilesOf(t) == {q \in DOMAIN t : EndsWith(q, <<".", "p", "a", "t", "c", "h">>)}

\* the header the step is about, when the step is a call of generate_patch
CalledFor(k) ==
  /\ Len(effects') = Len(effects) + 2
  /\ effects'[Len(effects')].op = "generate_patch"
  /\ effects'[Len(effects')].what = PatchPath(ALL_HEADERS[k][2])

\* the names of the patches of the headers that are there and have a patch file
RECURSIVE PatchesThere(_)
PatchesThere(k) ==
  IF k = 0 THEN <<>>
  ELSE PatchesThere(k - 1) \o
       (IF ALL_HEADERS[k][2] \in DOMAIN tree /\ PatchPath(ALL_HEADERS[k][2]) \in DOMAIN tree
        THEN <<PatchName(ALL_HEADERS[k][2])>> ELSE <<>>)

\* a second run right after a first one rewrites nothing and lists every patch
SecondRunRewritesNothing ==
  run = 2 =>
    /\ PatchFilesOf(tree) = PatchFilesOf(tree0)
    /\ \A q \in PatchFilesOf(tree) : tree[q] = tree0[q]
    /\ \A n \in 1..Len(effects) : effects[n].op = "generate_patch" => ~effects[n].ok
    /\ (hpc = "returned" /\ result = 0) => patches_generated = PatchesThere(Len(ALL_HEADERS))

\* C15: when generate_patch finds a patch file whose content is the new diff but for
\* the first two lines (the ones with the times), it returns False and leaves the
\* patch file as it is, byte for byte; so a second run of the patch generation, with
\* the same upstream content and the same modified headers, rewrites no patch file,
\* and process_headers lists the patch all the same.
C15_Idempotent ==
  /\ []SecondRunRewritesNothing
  /\ [][\A k \in 1..Len(ALL_HEADERS) :
          LET dest_path == ALL_HEADERS[k][2]
              patch_file == PatchPath(dest_path)
          IN  ( /\ CalledFor(k)
                /\ patch_file \in DOMAIN tree
                /\ tree[dest_path] # Upstream(ALL_HEADERS[k][1])
                /\ SameButTimestamps(tree[patch_file],
                                     NewPatchContent(dest_path, Upstream(ALL_HEADERS[k][1]),
                                                     tree[dest_path], clock)) )
              => /\ ~effects'[Len(effects')].ok
                 /\ tree' = tree
                 /\ patches_generated' = Append(patches_generated, PatchName(dest_path))]_vars

C15_Witness ==
  /\ run = 2
  /\ hpc = "returned"
  /\ result = 0
  /\ Len(patches_generated) = 2
  /\ tree[PatchPath(XNU_HEADERS[1][2])] = OldPatch(1)
  /\ tree[PatchPath(CCTOOLS_HEADERS[1][2])] \notin {OldPatch(3), SomePatch}
  /\ tree[XNU_HEADERS[1][2]] # Upstream(XNU_HEADERS[1][1])

====
